---- MODULE Spec2Model ----
(***************************************************************************)
(* Visitor management backend: the company-scoped check-in / checkout      *)
(* workflow of the Express server (POST /api/visits and                    *)
(* PUT /api/visits/:id/checkout) over the MySQL tables users, visitors and  *)
(* visits.                                                                 *)
(*                                                                         *)
(* Strings that the code transforms (names, through toLowerCase) are        *)
(* sequences of one-character strings; strings that are only compared      *)
(* (emails, company names) are TLA+ strings.  A SQL comparison `col = ?`    *)
(* is equality of the stored and the bound value, and is not true when      *)
(* either side is NULL.                                                    *)
(***************************************************************************)
EXTENDS Integers, Sequences, FiniteSets, TLC

\* ------------------------------------------------------------------ bounds
MaxVisits == 2      \* AUTO_INCREMENT values handed out per table
MaxTime == 4        \* last reading of the clock where time passes between requests
MaxFetches == 3     \* calls of fetchVisits the admin dashboard makes

\* --------------------------------------------------------------- constants
NULL == "NULL"      \* an unset VARCHAR column (users.company_name)
NULL_TIME == 0      \* an unset TIMESTAMP column (visits.check_out_time)
TicksPerDay == 2    \* clock readings that fall on one calendar date

VARIABLES
    users,          \* table users:    id -> [name, email, password, role, company_name, is_verified]
    companies,      \* table companies: id -> [email, company_name]
    visitors,       \* table visitors: id -> [name, email]
    visits,         \* table visits:   id -> [visitor_id, host_id, check_in_time, check_out_time]
    nextUserId,     \* AUTO_INCREMENT counter of users
    nextVisitorId,  \* AUTO_INCREMENT counter of visitors
    nextVisitId,    \* AUTO_INCREMENT counter of visits
    now,            \* the wall clock read by new Date()
    pool,           \* connections held, and those the last request took and released
    req,            \* one at a time: the request received last
    res,            \* one at a time: its response, NoResponse until it is handled
    pc,             \* concurrent: position of each in-flight handler
    tx,             \* concurrent: locals and transaction of each handler
    hist,           \* history: what each committed visit's transaction had seen
    mail,           \* the verification tokens sent by transporter.sendMail
    filters,        \* admin dashboard: the state `filters`
    userRole,       \* admin dashboard: the state `userRole`
    dashVisits,     \* admin dashboard: the state `visits`, the list displayed
    fetches         \* admin dashboard: the calls of fetchVisits awaiting getVisits

vars == <<users, companies, visitors, visits, nextUserId, nextVisitorId, nextVisitId, now,
          pool, req, res, pc, tx, hist, mail, filters, userRole, dashVisits, fetches>>

\* ----------------------------------------------------------------- strings
LowerChar(c) ==
    CASE c = "A" -> "a" [] c = "B" -> "b" [] c = "C" -> "c" [] c = "D" -> "d"
      [] c = "H" -> "h" [] c = "J" -> "j" [] c = "L" -> "l" [] c = "O" -> "o"
      [] c = "T" -> "t" [] c = "Y" -> "y"
      [] OTHER -> c

toLowerCase(s) == [i \in DOMAIN s |-> LowerChar(s[i])]

\* A SQL `a = b` in a WHERE clause: never true for NULL.
SqlEq(a, b) == a # NULL /\ b # NULL /\ a = b

\* ------------------------------------------------------------------- users
\* The users table the handlers run against: the sample rows of the schema
\* script (inserted without a company_name) and the users of two companies
\* registered through /registerCompany and /register.
User(name, email, password, role, company_name, is_verified) ==
    [name |-> name, email |-> email, password |-> password, role |-> role,
     company_name |-> company_name, is_verified |-> is_verified]

SampleUsers ==
    (1 :> User(<<"T","A">>, "ta@test.com", "pw", "admin", NULL,   TRUE))
 @@ (2 :> User(<<"C","y">>, "cy@test.com", "pw", "host",  NULL,   TRUE))
 @@ (3 :> User(<<"A","l">>, "al@acme.com", "pw", "admin", "Acme", TRUE))
 @@ (4 :> User(<<"B","o">>, "bo@acme.com", "pw", "host",  "Acme", FALSE))
 @@ (5 :> User(<<"C","y">>, "cy@acme.com", "pw", "host",  "Acme", FALSE))
 @@ (6 :> User(<<"B","o">>, "bo@beta.com", "pw", "host",  "Beta", FALSE))

\* The companies rows written with them: one for every user.
Company(email, company_name) == [email |-> email, company_name |-> company_name]
SampleCompanies ==
    (1 :> Company("ta@test.com", "Test"))
 @@ (2 :> Company("cy@test.com", "Test"))
 @@ (3 :> Company("al@acme.com", "Acme"))
 @@ (4 :> Company("bo@acme.com", "Acme"))
 @@ (5 :> Company("cy@acme.com", "Acme"))
 @@ (6 :> Company("bo@beta.com", "Beta"))

\* Company names in use (NULL is not a company).
Companies == {"Acme", "Beta"}

\* The hostName values and visitor emails a request body may carry.
HostNames == {<<"B","o">>, <<"b","O">>, <<"C","y">>}
Emails == {"alice@x.com", "carol@y.org"}

\* The name a visitor gives with their email, and their id card number.
VisitorName(email) == IF email = "alice@x.com" THEN <<"A","n">> ELSE <<"C","a">>
IdCardNumbers == {"ID1"}

\* login issues a token {id, role} to a host, and to any other user only
\* once is_verified is set; authenticateToken puts it in req.user.
CanLogin(id) == users[id].role = "host" \/ users[id].is_verified
authenticateToken == {[id |-> i, role |-> users[i].role] : i \in {j \in DOMAIN users : CanLogin(j)}}

\* A request as the handlers receive it: the route, req.user and the fields
\* of req.body and req.params the handlers read.
\* A field the body does not carry is "" (a name: <<>>).
Request(op, u, name, email, hostName, idCardNumber, id) ==
    [op |-> op, user |-> u, name |-> name, email |-> email, hostName |-> hostName,
     idCardNumber |-> idCardNumber, id |-> id]
NoUser == [id |-> 0, role |-> ""]
NoRequest == Request("none", NoUser, <<>>, "", <<>>, "", 0)

\* A response: the status, and the visit the request created or named.
Response(op, status, id) == [op |-> op, status |-> status, id |-> id]
NoResponse == Response("none", 0, 0)

\* ------------------------------------------------------- check-in: queries
\* Outcome of the host resolution: status 0 means host_id is resolved.
Resolved(id) == [status |-> 0, host_id |-> id]
Rejected(code) == [status |-> code, host_id |-> 0]

\* Variant: the host's name is looked up but not compared with hostName.
HostBranch_NoNameTest(u, hostName) ==
    LET hostUser == {i \in DOMAIN users : i = u.id}
    IN  IF hostUser = {} THEN Rejected(403) ELSE Resolved(u.id)

\* role host: "SELECT name FROM users WHERE id = ?" and the comparison of the
\* lower-cased names; the host checks visitors in for themselves only.
HostBranch(u, hostName) ==
    LET hostUser == {i \in DOMAIN users : i = u.id}
    IN  IF hostUser = {} \/ toLowerCase(users[u.id].name) # toLowerCase(hostName)
        THEN Rejected(403)
        ELSE Resolved(u.id)

\* Variant: the host is looked up by name and role in every company.
hostRows_AnyCompany(hostName, adminCompanyName) ==
    {i \in DOMAIN users : users[i].name = hostName /\ users[i].role = "host"}

\* "SELECT u.id FROM users u WHERE u.name = ? AND u.role = 'host'
\*    AND u.company_name = ?"
hostRows(hostName, adminCompanyName) ==
    {i \in DOMAIN users : /\ users[i].name = hostName
                          /\ users[i].role = "host"
                          /\ SqlEq(users[i].company_name, adminCompanyName)}

\* hostRows[0]: the rows come back in primary-key order.
FirstRow(rows) == CHOOSE i \in rows : \A j \in rows : i <= j

\* role admin: the admin's own company_name, then the host of that name in
\* that company.
AdminBranch(u, hostName) ==
    LET adminUser == {i \in DOMAIN users : i = u.id}
    IN  IF adminUser = {} \/ users[u.id].company_name = NULL
        THEN Rejected(400)
        ELSE LET rows == hostRows(hostName, users[u.id].company_name)
             IN  IF rows = {} THEN Rejected(404) ELSE Resolved(FirstRow(rows))

\* The if / else if / else over req.user.role.
ResolveHost(u, hostName) ==
    IF u.role = "host" THEN HostBranch(u, hostName)
    ELSE IF u.role = "admin" THEN AdminBranch(u, hostName)
    ELSE Rejected(403)

\* "SELECT company_name FROM users WHERE id = ?" for the resolved host.
hostCompanyInfo(host_id) == {i \in DOMAIN users : i = host_id}

\* The active-visit query with its two conditions on check_out_time and on
\* the host's company as parameters of the variants below.
activeVisitsWhere(email, hostCompanyName, onlyActive, sameCompany) ==
    {v \in DOMAIN visits :
        /\ visits[v].visitor_id \in DOMAIN visitors
        /\ visits[v].host_id \in DOMAIN users
        /\ SqlEq(visitors[visits[v].visitor_id].email, email)
        /\ onlyActive => visits[v].check_out_time = NULL_TIME
        /\ sameCompany => SqlEq(users[visits[v].host_id].company_name, hostCompanyName)}

\* Variant: the two bound values are passed in the wrong order.
activeVisits_SwappedParams(email, hostCompanyName) ==
    activeVisitsWhere(hostCompanyName, email, TRUE, TRUE)

\* Variant: the condition on h.company_name is missing.
activeVisits_AnyCompany(email, hostCompanyName) ==
    activeVisitsWhere(email, hostCompanyName, TRUE, FALSE)

\* Variant: the condition on check_out_time is missing.
activeVisits_AnyStatus(email, hostCompanyName) ==
    activeVisitsWhere(email, hostCompanyName, FALSE, TRUE)

\* "SELECT v.id FROM visits v JOIN visitors vis ON v.visitor_id = vis.id
\*    JOIN users h ON v.host_id = h.id
\*  WHERE vis.email = ? AND v.check_out_time IS NULL AND h.company_name = ?"
activeVisits(email, hostCompanyName) ==
    {v \in DOMAIN visits :
        /\ visits[v].visitor_id \in DOMAIN visitors
        /\ visits[v].host_id \in DOMAIN users
        /\ SqlEq(visitors[visits[v].visitor_id].email, email)
        /\ visits[v].check_out_time = NULL_TIME
        /\ SqlEq(users[visits[v].host_id].company_name, hostCompanyName)}

\* ------------------------------------------------- check-in: transaction
\* The rows of the two tables a transaction writes; a transaction holds the
\* rows it has inserted until it commits or rolls back.
Tables(vrs, vis) == [visitors |-> vrs, visits |-> vis]
NoRows == Tables(<<>>, <<>>)

\* Variant: visitors.email is still UNIQUE and a visitor row of that email is
\* reused instead of inserted.
InsertVisitor_UniqueEmail(t, visitor_id, name, email) ==
    IF \E w \in DOMAIN visitors : visitors[w].email = email
    THEN t
    ELSE [t EXCEPT !.visitors = visitor_id :> [name |-> name, email |-> email] @@ t.visitors]

\* "INSERT INTO visitors (...) VALUES (...)": the new row gets the next id;
\* the index on visitors.email is dropped, so a repeated email is accepted.
InsertVisitor(t, visitor_id, name, email) ==
    [t EXCEPT !.visitors = visitor_id :> [name |-> name, email |-> email] @@ t.visitors]

\* "INSERT INTO visits (visitor_id, host_id, reason, itemsCarried,
\*    check_in_time) VALUES (...)": check_out_time is left NULL.
InsertVisit(t, visit_id, visitor_id, host_id, check_in_time) ==
    [t EXCEPT !.visits = visit_id :> [visitor_id |-> visitor_id, host_id |-> host_id,
                                      check_in_time |-> check_in_time,
                                      check_out_time |-> NULL_TIME] @@ t.visits]

\* connection.commit(): the transaction's rows join the committed tables.
Commit(committed, work) ==
    Tables(work.visitors @@ committed.visitors, work.visits @@ committed.visits)

\* Variant: the rows written before the failure stay.
Rollback_KeepsWork(committed, work) ==
    Tables(work.visitors @@ committed.visitors, work.visits @@ committed.visits)

\* connection.rollback(): the transaction's rows are discarded.
Rollback(committed, work) == committed

\* The steps of the handler at which a database call may fail.
Faults == {"none", "getConnection", "beginTransaction", "users", "activeVisits",
           "insertVisitor", "insertVisit", "commit"}

\* How many calls of connection.rollback() fail, from the first one on.
RollbackFailures == 0..2

\* Variant: the id card number is not validated.
MissingField_NoIdCardNumber(r) == r.name = <<>> \/ r.email = "" \/ r.hostName = <<>>

\* "if (!name || !email || !hostName || !idCardNumber)".
MissingField(r) == r.name = <<>> \/ r.email = "" \/ r.hostName = <<>> \/ r.idCardNumber = ""

\* The run of the handler's try block for one request: the status it comes
\* to (500: a call threw), the resolved host, how many AUTO_INCREMENT values
\* of each table were used, and the rows the transaction had inserted when
\* it ended.
CheckInRun(r, fault) ==
    LET t0 == NoRows
        h == ResolveHost(r.user, r.hostName)
        t1 == InsertVisitor(t0, nextVisitorId, r.name, r.email)
        t2 == InsertVisit(t1, nextVisitId, nextVisitorId, h.host_id, now)
        End(status, usedVisitor, usedVisit, work) ==
            [status |-> status, host_id |-> h.host_id,
             usedVisitor |-> usedVisitor, usedVisit |-> usedVisit, work |-> work]
    IN  IF fault \in {"beginTransaction", "users"} THEN
            [End(500, 0, 0, t0) EXCEPT !.host_id = 0]
        ELSE IF h.status # 0 THEN End(h.status, 0, 0, t0)
        ELSE IF hostCompanyInfo(h.host_id) = {} THEN End(400, 0, 0, t0)
        ELSE IF fault = "activeVisits" THEN End(500, 0, 0, t0)
        ELSE IF activeVisits(r.email, users[h.host_id].company_name) # {} THEN End(409, 0, 0, t0)
        ELSE IF fault = "insertVisitor" THEN End(500, 0, 0, t0)
        ELSE IF fault = "insertVisit" THEN End(500, 1, 0, t1)
        ELSE IF fault = "commit" THEN End(500, 1, 1, t2)
        ELSE End(201, 1, 1, t2)

\* The status answered when the try block came to `status` and the first
\* `rollbackFailures` calls of rollback() throw: an early return rolls back
\* first, and a throw there is caught like any other; the catch block rolls
\* back and answers 500; a throw in the catch block leaves the request
\* without a response (status 0).
Answered(status, rollbackFailures) ==
    IF status = 201 THEN 201
    ELSE IF status = 500 THEN (IF rollbackFailures >= 1 THEN 0 ELSE 500)
    ELSE IF rollbackFailures = 0 THEN status
    ELSE IF rollbackFailures = 1 THEN 500
    ELSE 0

\* Variant: the connection is released at the end of the try block only.
finallyRelease_AfterCommitOnly(status) == IF status = 201 THEN 1 ELSE 0

\* "finally { connection.release(); }": how many times the connection is
\* released after the try and catch blocks ended with `status`.
finallyRelease(status) == 1

\* The pool after a request that took `acquired` connections and released
\* `released`.
PoolAfter(acquired, released) ==
    [held |-> pool.held + acquired - released, acquired |-> acquired, released |-> released]

\* POST /api/visits, handled to completion: the validation, getConnection,
\* the try block, then commit or the rollback of the early returns and of
\* the catch block (a transaction whose rollback failed is discarded with
\* its lost connection), and the release.
CheckIn(r, fault, rollbackFailures) ==
    IF MissingField(r) THEN
        /\ res' = Response("checkin", 400, 0)
        /\ pool' = PoolAfter(0, 0)
        /\ UNCHANGED <<users, companies, visitors, visits, nextUserId, nextVisitorId,
                       nextVisitId, now, req, pc, tx, hist, mail, filters, userRole, dashVisits, fetches>>
    ELSE IF fault = "getConnection" THEN
        /\ res' = Response("checkin", 0, 0)
        /\ pool' = PoolAfter(0, 0)
        /\ UNCHANGED <<users, companies, visitors, visits, nextUserId, nextVisitorId,
                       nextVisitId, now, req, pc, tx, hist, mail, filters, userRole, dashVisits, fetches>>
    ELSE
        LET run == CheckInRun(r, fault)
            status == Answered(run.status, rollbackFailures)
            committed == Tables(visitors, visits)
            after == IF run.status = 201 THEN Commit(committed, run.work)
                                         ELSE Rollback(committed, run.work)
        IN  /\ run.usedVisitor = 1 => nextVisitorId <= MaxVisits
            /\ run.usedVisit = 1 => nextVisitId <= MaxVisits
            /\ visitors' = after.visitors
            /\ visits' = after.visits
            /\ nextVisitorId' = nextVisitorId + run.usedVisitor
            /\ nextVisitId' = nextVisitId + run.usedVisit
            /\ res' = Response("checkin", status, IF status = 201 THEN nextVisitId ELSE 0)
            /\ pool' = PoolAfter(1, finallyRelease(status))
            /\ UNCHANGED <<users, companies, nextUserId, now, req, pc, tx, hist, mail, filters, userRole, dashVisits, fetches>>

\* ------------------------------------------------------- registerCompany
\* req.body of POST /api/registerCompany.
RegisterCompanyRequest(email, firstName, lastName, password, companyName) ==
    [op |-> "registerCompany", user |-> NoUser, email |-> email, firstName |-> firstName,
     lastName |-> lastName, password |-> password, companyName |-> companyName]

\* "if (!email || !firstName || !password || !companyName)".
MissingRegistrationField(r) ==
    r.email = "" \/ r.firstName = <<>> \/ r.password = "" \/ r.companyName = ""

\* String.prototype.trim on a name.
RECURSIVE TrimStart(_)
TrimStart(s) == IF s # <<>> /\ Head(s) = " " THEN TrimStart(Tail(s)) ELSE s
RECURSIVE TrimEnd(_)
TrimEnd(s) == IF s # <<>> /\ s[Len(s)] = " " THEN TrimEnd(SubSeq(s, 1, Len(s) - 1)) ELSE s
trim(s) == TrimEnd(TrimStart(s))

\* Variant: users.email carries no unique index.
DuplicateEmail_Never(email) == FALSE

\* "email VARCHAR(255) UNIQUE NOT NULL": an INSERT of this email into users
\* throws ER_DUP_ENTRY.
DuplicateEmail(email) == \E i \in DOMAIN users : users[i].email = email

\* The payload of a token that carries no role (JavaScript undefined).
undefined == "undefined"

\* jwt.sign({ id: userId }, ...): the verification token of a new user.
VerificationToken(userId) == [id |-> userId, role |-> undefined]

\* The steps of the handler at which a call may fail.
RegisterFaults == {"none", "getConnection", "beginTransaction", "insertUser",
                   "insertCompany", "commit", "sendMail"}

\* The run of the try block: the status it comes to (409: the INSERT into
\* users threw ER_DUP_ENTRY on the unique email; 500: another call threw),
\* whether an AUTO_INCREMENT value of users was used, whether commit() had
\* returned, and the rows the transaction had inserted.
RegisterCompanyRun(r, fault) ==
    LET name == trim(r.firstName \o <<" ">> \o r.lastName)
        userId == nextUserId
        u1 == userId :> User(name, r.email, r.password, "admin", r.companyName, FALSE)
        c1 == userId :> Company(r.email, r.companyName)
        End(status, usedUser, committed, workUsers, workCompanies) ==
            [status |-> status, usedUser |-> usedUser, committed |-> committed,
             users |-> workUsers, companies |-> workCompanies]
    IN  IF fault \in {"beginTransaction", "insertUser"} THEN End(500, 0, FALSE, <<>>, <<>>)
        ELSE IF DuplicateEmail(r.email) THEN End(409, 1, FALSE, <<>>, <<>>)
        ELSE IF fault = "insertCompany" THEN End(500, 1, FALSE, u1, <<>>)
        ELSE IF fault = "commit" THEN End(500, 1, FALSE, u1, c1)
        ELSE IF fault = "sendMail" THEN End(500, 1, TRUE, u1, c1)
        ELSE End(201, 1, TRUE, u1, c1)

\* POST /api/registerCompany, handled to completion: the validation,
\* getConnection, the try block with its commit before the mail is sent,
\* the rollback of the catch block (which undoes nothing once commit() has
\* returned), and the release.
RegisterCompany(r, fault, rollbackFailures) ==
    IF MissingRegistrationField(r) THEN
        /\ res' = Response("registerCompany", 400, 0)
        /\ pool' = PoolAfter(0, 0)
        /\ UNCHANGED <<users, companies, visitors, visits, nextUserId, nextVisitorId,
                       nextVisitId, now, req, pc, tx, hist, mail, filters, userRole, dashVisits, fetches>>
    ELSE IF fault = "getConnection" THEN
        /\ res' = Response("registerCompany", 0, 0)
        /\ pool' = PoolAfter(0, 0)
        /\ UNCHANGED <<users, companies, visitors, visits, nextUserId, nextVisitorId,
                       nextVisitId, now, req, pc, tx, hist, mail, filters, userRole, dashVisits, fetches>>
    ELSE
        LET run == RegisterCompanyRun(r, fault)
            status == IF run.status # 201 /\ rollbackFailures >= 1 /\ ~run.committed
                      THEN 0 ELSE run.status
        IN  /\ run.usedUser = 1 => nextUserId <= Cardinality(DOMAIN SampleUsers) + MaxVisits
            /\ users' = IF run.committed THEN run.users @@ users
                                         ELSE Rollback(users, run.users)
            /\ companies' = IF run.committed THEN run.companies @@ companies
                                             ELSE Rollback(companies, run.companies)
            /\ nextUserId' = nextUserId + run.usedUser
            /\ res' = Response("registerCompany", status, IF status = 201 THEN nextUserId ELSE 0)
            /\ pool' = PoolAfter(1, finallyRelease(status))
            /\ mail' = IF run.status = 201 THEN mail \cup {VerificationToken(nextUserId)} ELSE mail
            /\ UNCHANGED <<visitors, visits, nextVisitorId, nextVisitId, now, req, pc, tx, hist, filters, userRole, dashVisits, fetches>>

\* ---------------------------------------------------------------- register
\* req.user and req.body of POST /api/register.
RegisterRequest(u, email, firstName, lastName, password) ==
    [op |-> "register", user |-> u, email |-> email, firstName |-> firstName,
     lastName |-> lastName, password |-> password]

\* Variant: the admin's company is read from the users table.
adminCompany_FromUsers(id) ==
    IF id \in DOMAIN users THEN <<[company_name |-> users[id].company_name]>> ELSE <<>>

\* "SELECT company_name FROM companies WHERE id = ?": the rows.
adminCompany(id) ==
    IF id \in DOMAIN companies THEN <<[company_name |-> companies[id].company_name]>> ELSE <<>>

\* The users row of the INSERT: role 'host', is_verified left to its default.
HostRow(name, email, password, companyName) ==
    User(name, email, password, "host", companyName, FALSE)

\* Variant: the companies row takes the company_name of the admin's users row.
HostCompanyRow_FromUsers(adminId, email, companyName) ==
    Company(email, users[adminId].company_name)

\* The companies row of the second INSERT.
HostCompanyRow(adminId, email, companyName) == Company(email, companyName)

\* The queries of the handler that may fail.
RegisterQueries == {"none", "adminCompany", "insertUser", "insertCompany"}

\* POST /api/register, handled to completion.  Every query runs on the pool
\* in autocommit: a row inserted stays, whatever follows.
Register(r, fault) ==
    LET Answer(status, id) ==
            /\ res' = Response("register", status, id)
            /\ UNCHANGED <<visitors, visits, nextVisitorId, nextVisitId, now, pool, req, pc,
                           tx, hist, mail, filters, userRole, dashVisits, fetches>>
        Unchanged == UNCHANGED <<users, companies, nextUserId>>
    IN  IF r.user.role # "admin" THEN Answer(403, 0) /\ Unchanged
        ELSE IF r.email = "" \/ r.firstName = <<>> \/ r.password = "" THEN Answer(400, 0) /\ Unchanged
        ELSE IF fault = "adminCompany" THEN Answer(500, 0) /\ Unchanged
        ELSE IF adminCompany(r.user.id) = <<>> THEN Answer(400, 0) /\ Unchanged
        ELSE IF fault = "insertUser" THEN Answer(500, 0) /\ Unchanged
        ELSE
            LET name == trim(r.firstName \o <<" ">> \o r.lastName)
                companyName == adminCompany(r.user.id)[1].company_name
                insertId == nextUserId
            IN  /\ nextUserId <= Cardinality(DOMAIN SampleUsers) + MaxVisits
                /\ nextUserId' = nextUserId + 1
                /\ IF DuplicateEmail(r.email) THEN
                       Answer(409, 0) /\ UNCHANGED <<users, companies>>
                   ELSE
                       /\ users' = (insertId :> HostRow(name, r.email, r.password, companyName))
                                       @@ users
                       /\ IF fault = "insertCompany"
                          THEN Answer(500, 0) /\ UNCHANGED companies
                          ELSE /\ companies' = (insertId :> HostCompanyRow(r.user.id, r.email,
                                                                           companyName))
                                                   @@ companies
                               /\ Answer(201, insertId)

\* ------------------------------------------------------ login, verify-email
\* A token as a request carries it: none, one jwt.verify rejects (forged or
\* expired), or one signed by this server around `payload`.
Token(kind, payload) == [kind |-> kind, id |-> payload.id, role |-> payload.role]
NoToken == Token("missing", NoUser)
InvalidToken == Token("invalid", NoUser)
PayloadOf(token) == [id |-> token.id, role |-> token.role]

\* The tokens this server has signed: the verification tokens it mailed and
\* the tokens login gives out.
SignedTokens == {Token("signed", payload) : payload \in authenticateToken \cup mail}

\* req.body of POST /api/login, and req.query of GET /api/verify-email.
LoginRequest(email, password) ==
    [op |-> "login", user |-> NoUser, email |-> email, password |-> password]
VerifyEmailRequest(token) == [op |-> "verifyEmail", user |-> NoUser, token |-> token]

\* The response of login: the status and, with 200, the token's payload.
TokenResponse(op, status, payload) ==
    [op |-> op, status |-> status, id |-> payload.id, token |-> payload]

\* Variant: login does not look at is_verified.
NeedsVerification_Never(user) == FALSE

\* "if (user.role !== 'host' && !user.is_verified)".
NeedsVerification(user) == user.role # "host" /\ ~user.is_verified

\* POST /api/login.
Login(r) ==
    LET rows == {i \in DOMAIN users : users[i].email = r.email}
    IN  /\ res' = IF rows = {} THEN TokenResponse("login", 401, NoUser)
                  ELSE LET id == CHOOSE i \in rows : TRUE
                           user == users[id]
                       IN  IF user.password # r.password THEN TokenResponse("login", 401, NoUser)
                           ELSE IF NeedsVerification(user)
                                THEN TokenResponse("login", 403, NoUser)
                           ELSE TokenResponse("login", 200, [id |-> id, role |-> user.role])
        /\ UNCHANGED <<users, companies, visitors, visits, nextUserId, nextVisitorId,
                       nextVisitId, now, pool, req, pc, tx, hist, mail, filters, userRole,
                       dashVisits, fetches>>

\* "UPDATE users SET is_verified = ? WHERE id = ?" with [true, userId].
SetVerified(t, userId) ==
    [i \in DOMAIN t |-> IF i = userId THEN [t[i] EXCEPT !.is_verified = TRUE] ELSE t[i]]

\* GET /api/verify-email: 400 without a token and for one jwt.verify
\* rejects; any token signed by this server names the user to verify.
VerifyEmail(r) ==
    /\ IF r.token.kind # "signed"
       THEN res' = Response("verifyEmail", 400, 0) /\ UNCHANGED users
       ELSE res' = Response("verifyEmail", 200, r.token.id)
               /\ users' = SetVerified(users, r.token.id)
    /\ UNCHANGED <<companies, visitors, visits, nextUserId, nextVisitorId, nextVisitId, now,
                   pool, req, pc, tx, hist, mail, filters, userRole, dashVisits, fetches>>

\* ---------------------------------------------------------------- checkout
\* "SELECT host_id FROM visits WHERE id = ?"
visitRows(id) == {v \in DOMAIN visits : v = id}

\* Variant: only the existence of the visit is tested.
NotOwnVisit_ExistsOnly(u, id) == visitRows(id) = {}

\* Variant: a missing visit is not refused by the ownership test.
NotOwnVisit_MissingPasses(u, id) == visitRows(id) # {} /\ visits[id].host_id # u.id

\* The ownership test made for a caller with role host.
NotOwnVisit(u, id) == visitRows(id) = {} \/ visits[id].host_id # u.id

\* Variant: the UPDATE has no condition on check_out_time.
UpdateMatches_NoNullTest(id) == {v \in DOMAIN visits : v = id}

\* "UPDATE visits SET check_out_time = ? WHERE id = ? AND check_out_time IS NULL"
UpdateMatches(id) == {v \in DOMAIN visits : v = id /\ visits[v].check_out_time = NULL_TIME}

\* Variant: the UPDATE has no condition on id.
UpdateCheckOut_NoIdTest(id, check_out_time) ==
    [v \in DOMAIN visits |->
        IF visits[v].check_out_time = NULL_TIME
        THEN [visits[v] EXCEPT !.check_out_time = check_out_time]
        ELSE visits[v]]

\* The rows after the UPDATE.
UpdateCheckOut(id, check_out_time) ==
    [v \in DOMAIN visits |->
        IF v \in UpdateMatches(id) THEN [visits[v] EXCEPT !.check_out_time = check_out_time]
                                   ELSE visits[v]]

\* PUT /api/visits/:id/checkout, handled to completion; check_out_time is
\* the clock's value. The clock is observed only through the value written,
\* so it advances in the model when a row is written.
Checkout(u, id) ==
    IF u.role = "host" /\ NotOwnVisit(u, id) THEN
        /\ res' = Response("checkout", 403, id)
        /\ UNCHANGED <<users, companies, nextUserId, pool, visitors, visits, nextVisitorId, nextVisitId, now, req, pc, tx, hist, mail, filters, userRole, dashVisits, fetches>>
    ELSE
        LET affectedRows == Cardinality(UpdateMatches(id))
        IN  /\ visits' = UpdateCheckOut(id, now)
            /\ now' = IF affectedRows > 0 THEN now + 1 ELSE now
            /\ res' = Response("checkout", IF affectedRows > 0 THEN 200 ELSE 404, id)
            /\ UNCHANGED <<users, companies, nextUserId, pool, visitors, nextVisitorId, nextVisitId, req, pc, tx, hist, mail, filters, userRole, dashVisits, fetches>>

\* The queries of the checkout handler that may fail.
CheckoutQueries == {"none", "visitRows", "update"}

\* PUT /api/visits/:id/checkout while a query may fail.  The ownership
\* SELECT of a host runs outside the try block: when it rejects, the async
\* handler ends without a response (status 0).  A failing UPDATE is caught
\* and answered 500.
CheckoutFailing(u, id, fault) ==
    IF u.role = "host" /\ fault = "visitRows" THEN
        /\ res' = Response("checkout", 0, id)
        /\ UNCHANGED <<users, companies, nextUserId, pool, visitors, visits, nextVisitorId,
                       nextVisitId, now, req, pc, tx, hist, mail, filters, userRole,
                       dashVisits, fetches>>
    ELSE IF fault = "update" /\ ~(u.role = "host" /\ NotOwnVisit(u, id)) THEN
        /\ res' = Response("checkout", 500, id)
        /\ UNCHANGED <<users, companies, nextUserId, pool, visitors, visits, nextVisitorId,
                       nextVisitId, now, req, pc, tx, hist, mail, filters, userRole,
                       dashVisits, fetches>>
    ELSE Checkout(u, id)

\* ------------------------------------------------------------ visit lists
\* req.query of the two list routes; a parameter that is not passed (or is
\* passed empty) is Absent (a name: <<>>).
Absent == 0
Query(hostId, startDate, endDate, hostName, visitorName) ==
    [hostId |-> hostId, startDate |-> startDate, endDate |-> endDate,
     hostName |-> hostName, visitorName |-> visitorName]
QueryRequest(op, u, query) == [op |-> op, user |-> u, query |-> query]
ListResponse(op, status, rows) == [op |-> op, status |-> status, id |-> 0, rows |-> rows]

\* DATE(t): the calendar date of a clock reading.
DateOf(t) == (t - 1) \div TicksPerDay + 1

\* s LIKE pat, with the wildcards % (any run of characters) and _ (any one).
RECURSIVE Like(_, _)
Like(s, pat) ==
    IF pat = <<>> THEN s = <<>>
    ELSE IF Head(pat) = "%" THEN Like(s, Tail(pat)) \/ (s # <<>> /\ Like(Tail(s), pat))
    ELSE s # <<>> /\ (Head(pat) = "_" \/ Head(pat) = Head(s)) /\ Like(Tail(s), Tail(pat))

\* The conditions pushed for the parameters that are passed.
Conditions(q) ==
    {c \in {"hostId", "startDate", "endDate"} : q[c] # Absent}
    \cup {c \in {"hostName", "visitorName"} : q[c] # <<>>}

\* One pushed condition on the joined row of visit v.
Condition(c, v, q) ==
    CASE c = "hostId"      -> visits[v].host_id = q.hostId
      [] c = "startDate"   -> DateOf(visits[v].check_in_time) >= q.startDate
      [] c = "endDate"     -> DateOf(visits[v].check_in_time) <= q.endDate
      [] c = "hostName"    -> Like(users[visits[v].host_id].name, <<"%">> \o q.hostName \o <<"%">>)
      [] c = "visitorName" -> Like(visitors[visits[v].visitor_id].name,
                                   <<"%">> \o q.visitorName \o <<"%">>)

\* Variant: the condition on h.company_name is missing.
visitsOfCompany_AnyCompany(adminCompanyName, q) ==
    {v \in DOMAIN visits :
        /\ visits[v].visitor_id \in DOMAIN visitors
        /\ visits[v].host_id \in DOMAIN users
        /\ \A c \in Conditions(q) : Condition(c, v, q)}

\* Variant: the pushed conditions are joined with OR.
visitsOfCompany_AnyCondition(adminCompanyName, q) ==
    {v \in DOMAIN visits :
        /\ visits[v].visitor_id \in DOMAIN visitors
        /\ visits[v].host_id \in DOMAIN users
        /\ SqlEq(users[visits[v].host_id].company_name, adminCompanyName)
        /\ Conditions(q) # {} => \E c \in Conditions(q) : Condition(c, v, q)}

\* "SELECT DISTINCT ... FROM visits v JOIN visitors vis ON v.visitor_id =
\*  vis.id JOIN users h ON v.host_id = h.id WHERE h.company_name = ?"
\* followed by " AND " and the pushed conditions joined with " AND ".
visitsOfCompany(adminCompanyName, q) ==
    {v \in DOMAIN visits :
        /\ visits[v].visitor_id \in DOMAIN visitors
        /\ visits[v].host_id \in DOMAIN users
        /\ SqlEq(users[visits[v].host_id].company_name, adminCompanyName)
        /\ \A c \in Conditions(q) : Condition(c, v, q)}

\* Variant: a hostId passed in the query replaces the caller's id.
visitsOfHost_QueryHostId(hostId, q) ==
    {v \in DOMAIN visits :
        /\ visits[v].visitor_id \in DOMAIN visitors
        /\ visits[v].host_id \in DOMAIN users
        /\ visits[v].host_id = IF q.hostId # Absent THEN q.hostId ELSE hostId}

\* "SELECT ... FROM visits v JOIN visitors vis ... JOIN users h ...
\*  WHERE v.host_id = ?" with hostId = req.user.id; req.query is not read.
visitsOfHost(hostId, q) ==
    {v \in DOMAIN visits :
        /\ visits[v].visitor_id \in DOMAIN visitors
        /\ visits[v].host_id \in DOMAIN users
        /\ visits[v].host_id = hostId}

\* "ORDER BY v.check_in_time DESC": the orders in which the rows may come
\* back (rows of one check_in_time come in any order).
OrderByCheckInTimeDesc(rows) ==
    {f \in [1..Cardinality(rows) -> rows] :
        /\ \A i, j \in DOMAIN f : i # j => f[i] # f[j]
        /\ \A i, j \in DOMAIN f :
              i < j => visits[f[i]].check_in_time >= visits[f[j]].check_in_time}

\* GET /api/visits, handled to completion.
GetVisits(u, q) ==
    LET adminUser == {i \in DOMAIN users : i = u.id}
    IN  /\ IF u.role # "admin" THEN res' = ListResponse("visits", 403, <<>>)
           ELSE IF adminUser = {} \/ users[u.id].company_name = NULL
                THEN res' = ListResponse("visits", 400, <<>>)
           ELSE \E rows \in OrderByCheckInTimeDesc(visitsOfCompany(users[u.id].company_name, q)) :
                    res' = ListResponse("visits", 200, rows)
        /\ UNCHANGED <<users, companies, visitors, visits, nextUserId, nextVisitorId,
                       nextVisitId, now, pool, req, pc, tx, hist, mail, filters, userRole, dashVisits, fetches>>

\* GET /api/host-visits, handled to completion.
GetHostVisits(u, q) ==
    /\ IF u.role # "host" THEN res' = ListResponse("hostVisits", 403, <<>>)
       ELSE \E rows \in OrderByCheckInTimeDesc(visitsOfHost(u.id, q)) :
                res' = ListResponse("hostVisits", 200, rows)
    /\ UNCHANGED <<users, companies, visitors, visits, nextUserId, nextVisitorId,
                   nextVisitId, now, pool, req, pc, tx, hist, mail, filters, userRole, dashVisits, fetches>>

\* ------------------------------------------------------------------- user list
\* "SELECT u.id, u.name, u.email, u.role, u.company_name FROM users u
\*  WHERE u.company_name = ?": the rows, without their order.
usersOfCompany(adminCompanyName) ==
    {[id |-> i, name |-> users[i].name, email |-> users[i].email, role |-> users[i].role,
      company_name |-> users[i].company_name] :
        i \in {j \in DOMAIN users : SqlEq(users[j].company_name, adminCompanyName)}}

\* GET /api/users.
GetUsers(u) ==
    /\ res' = IF u.role # "admin" THEN ListResponse("users", 403, {})
              ELSE IF u.id \notin DOMAIN users \/ users[u.id].company_name = NULL
                   THEN ListResponse("users", 400, {})
              ELSE ListResponse("users", 200, usersOfCompany(users[u.id].company_name))
    /\ UNCHANGED <<users, companies, visitors, visits, nextUserId, nextVisitorId,
                   nextVisitId, now, pool, req, pc, tx, hist, mail, filters, userRole,
                   dashVisits, fetches>>

\* ----------------------------------------------------------- specification
\* Visit ids a checkout request may name: rows that exist and ids that do not.
VisitIds == 1..MaxVisits

NoConnection == [held |-> 0, acquired |-> 0, released |-> 0]

\* useState({startDate: '', endDate: '', hostName: '', visitorName: ''}).
NoFilters == [startDate |-> Absent, endDate |-> Absent, hostName |-> <<>>, visitorName |-> <<>>]

Init ==
    /\ users = SampleUsers
    /\ companies = SampleCompanies
    /\ visitors = <<>>
    /\ visits = <<>>
    /\ nextUserId = Cardinality(DOMAIN SampleUsers) + 1
    /\ nextVisitorId = 1
    /\ nextVisitId = 1
    /\ now = 1
    /\ pool = NoConnection
    /\ req = NoRequest
    /\ res = NoResponse
    /\ pc = <<>>
    /\ tx = <<>>
    /\ hist = <<>>
    /\ mail = {}
    /\ filters = NoFilters
    /\ userRole = NULL
    /\ dashVisits = <<>>
    /\ fetches = <<>>

\* A request arrives when no other is being handled.
Receive(r) ==
    /\ req = NoRequest /\ res = NoResponse
    /\ req' = r
    /\ res' = NoResponse
    /\ UNCHANGED <<users, companies, nextUserId, pool, visitors, visits, nextVisitorId, nextVisitId, now, pc, tx, hist, mail, filters, userRole, dashVisits, fetches>>

\* The response is sent: the handler has ended and its req and res are gone.
EndRequest ==
    /\ res # NoResponse
    /\ req' = NoRequest
    /\ res' = NoResponse
    /\ UNCHANGED <<users, companies, nextUserId, pool, visitors, visits, nextVisitorId, nextVisitId, now, pc, tx, hist, mail, filters, userRole, dashVisits, fetches>>

ReceiveCheckIn ==
    \E u \in authenticateToken, email \in Emails, hostName \in HostNames,
       idCardNumber \in IdCardNumbers :
        Receive(Request("checkin", u, VisitorName(email), email, hostName, idCardNumber, 0))

ReceiveCheckout == \E u \in authenticateToken, id \in VisitIds :
                      Receive(Request("checkout", u, <<>>, "", <<>>, "", id))

DoCheckIn == req.op = "checkin" /\ res = NoResponse /\ CheckIn(req, "none", 0)

DoCheckout == req.op = "checkout" /\ res = NoResponse /\ Checkout(req.user, req.id)

\* Requests handled one at a time, the database answering every query.
Next == ReceiveCheckIn \/ ReceiveCheckout \/ DoCheckIn \/ DoCheckout \/ EndRequest

Spec == Init /\ [][Next]_vars

\* Requests handled one at a time while database calls may fail: the
\* check-in transaction fails at any of its steps.
DoCheckInFault == \E fault \in Faults :
                     req.op = "checkin" /\ res = NoResponse /\ CheckIn(req, fault, 0)

\* The visitor emails of the requests while database calls may fail.
FaultEmails == {"alice@x.com"}

ReceiveCheckInFault ==
    \E u \in authenticateToken, email \in FaultEmails, hostName \in HostNames,
       idCardNumber \in IdCardNumbers :
        Receive(Request("checkin", u, VisitorName(email), email, hostName, idCardNumber, 0))

NextFault == ReceiveCheckInFault \/ ReceiveCheckout \/ DoCheckInFault \/ DoCheckout \/ EndRequest

SpecFault == Init /\ [][NextFault]_vars

\* Check-ins and company registrations handled one at a time while any call
\* may fail, rollback() included, and request bodies may lack fields.
PoolCallers == {u \in authenticateToken : u.id \in {3, 4, 5}}
PoolCheckIns ==
    {Request("checkin", u, name, email, hostName, idCardNumber, 0) :
        u \in PoolCallers, name \in {<<>>, <<"A","n">>}, email \in {"", "alice@x.com"},
        hostName \in {<<>>, <<"B","o">>, <<"Z","e","d">>}, idCardNumber \in {"", "ID1"}}
PoolRegistrations ==
    {RegisterCompanyRequest(email, firstName, <<>>, password, companyName) :
        email \in {"", "al@acme.com", "zed@beta.com"}, firstName \in {<<>>, <<"Z","e","d">>},
        password \in {"", "pw"}, companyName \in {"", "Beta"}}

ReceiveCheckInPool == \E r \in PoolCheckIns : Receive(r)

ReceiveRegisterCompany == \E r \in PoolRegistrations : Receive(r)

DoCheckInPool ==
    \E fault \in Faults, rollbackFailures \in RollbackFailures :
        req.op = "checkin" /\ res = NoResponse /\ CheckIn(req, fault, rollbackFailures)

DoRegisterCompany ==
    \E fault \in RegisterFaults, rollbackFailures \in RollbackFailures :
        req.op = "registerCompany" /\ res = NoResponse
            /\ RegisterCompany(req, fault, rollbackFailures)

NextPool ==
    \/ ReceiveCheckInPool \/ DoCheckInPool
    \/ ReceiveRegisterCompany \/ DoRegisterCompany
    \/ EndRequest

SpecPool == Init /\ [][NextPool]_vars

\* The visit lists are read while visitors are checked in and time passes.
\* Check-ins come from the hosts themselves.  The admin of a company passes
\* any combination of the parameters; the other callers pass none or one.
QueryHosts == {u \in authenticateToken : u.role = "host" /\ users[u.id].company_name \in Companies}
QueryAdmins == {u \in authenticateToken : u.role = "admin" /\ users[u.id].company_name \in Companies}
QueryCallers == {u \in authenticateToken : u.id \in {1, 3, 4, 6}}
Queries ==
    {Query(hostId, startDate, endDate, hostName, visitorName) :
        hostId \in {Absent, 4, 6}, startDate \in {Absent, 2}, endDate \in {Absent, 1, 2},
        hostName \in {<<>>, <<"o">>}, visitorName \in {<<>>, <<"n">>}}
FewQueries == {Query(Absent, Absent, Absent, <<>>, <<>>), Query(6, Absent, Absent, <<>>, <<>>),
               Query(Absent, 2, Absent, <<>>, <<"n">>)}

ReceiveCheckInQuery ==
    \E u \in QueryHosts, email \in Emails, idCardNumber \in IdCardNumbers :
        Receive(Request("checkin", u, VisitorName(email), email, users[u.id].name,
                        idCardNumber, 0))

\* Time passes between two requests.
Tick ==
    /\ req = NoRequest /\ now < MaxTime
    /\ now' = now + 1
    /\ UNCHANGED <<users, companies, visitors, visits, nextUserId, nextVisitorId,
                   nextVisitId, pool, req, res, pc, tx, hist, mail, filters, userRole, dashVisits, fetches>>

ReceiveGetVisits ==
    \/ \E u \in QueryAdmins, q \in Queries : Receive(QueryRequest("visits", u, q))
    \/ \E u \in QueryCallers \ QueryAdmins, q \in FewQueries : Receive(QueryRequest("visits", u, q))

ReceiveGetHostVisits ==
    \E u \in QueryCallers, q \in FewQueries : Receive(QueryRequest("hostVisits", u, q))

DoGetVisits == req.op = "visits" /\ res = NoResponse /\ GetVisits(req.user, req.query)

DoGetHostVisits == req.op = "hostVisits" /\ res = NoResponse /\ GetHostVisits(req.user, req.query)

NextQuery ==
    \/ ReceiveCheckInQuery \/ DoCheckIn \/ Tick
    \/ ReceiveGetVisits \/ DoGetVisits
    \/ ReceiveGetHostVisits \/ DoGetHostVisits
    \/ EndRequest

SpecQuery == Init /\ [][NextQuery]_vars

\* Check-ins, checkouts and host registrations while any query may fail.
FailingCallers == {u \in authenticateToken : u.id \in {1, 3, 4}}

ReceiveRegisterFailing ==
    \E u \in FailingCallers, email \in {"bo@acme.com", "hal@acme.com"} :
        Receive(RegisterRequest(u, email, <<"H","a","l">>, <<>>, "pw"))

ReceiveCheckInFailing ==
    \E u \in FailingCallers :
        Receive(Request("checkin", u, <<"A","n">>, "alice@x.com", <<"B","o">>, "ID1", 0))

ReceiveCheckoutFailing ==
    \E u \in FailingCallers, id \in VisitIds :
        Receive(Request("checkout", u, <<>>, "", <<>>, "", id))

DoRegisterFailing ==
    \E fault \in RegisterQueries :
        req.op = "register" /\ res = NoResponse /\ Register(req, fault)

DoCheckoutFailing ==
    \E fault \in CheckoutQueries :
        req.op = "checkout" /\ res = NoResponse /\ CheckoutFailing(req.user, req.id, fault)

NextFail ==
    \/ ReceiveCheckInFailing \/ DoCheckInFault
    \/ ReceiveCheckoutFailing \/ DoCheckoutFailing
    \/ ReceiveRegisterFailing \/ DoRegisterFailing
    \/ EndRequest

SpecFail == Init /\ [][NextFail]_vars

\* ------------------------------------------------------- accounts, tokens
\* Variant: a request without a token is let through.
TokenStatus_MissingPasses(token) == IF token.kind = "invalid" THEN 403 ELSE 0

\* authenticateToken: 401 without a token, 403 for one jwt.verify rejects,
\* and next() (0) otherwise.
TokenStatus(token) ==
    IF token.kind = "missing" THEN 401 ELSE IF token.kind = "invalid" THEN 403 ELSE 0

\* A request to a protected route with its Authorization header; req.user
\* is the payload of a token that jwt.verify accepts.
Bearer(token, r) ==
    [authorization |-> token]
        @@ [r EXCEPT !.user = IF token.kind = "signed" THEN PayloadOf(token) ELSE NoUser]

\* A protected route: the middleware answers, or the handler runs.
Protected(op, next) ==
    IF TokenStatus(req.authorization) # 0 THEN
        /\ res' = Response(op, TokenStatus(req.authorization), 0)
        /\ UNCHANGED <<users, companies, visitors, visits, nextUserId, nextVisitorId,
                       nextVisitId, now, pool, req, pc, tx, hist, mail, filters, userRole,
                       dashVisits, fetches>>
    ELSE next

\* The tokens requests come with: none, a rejected one, the login tokens of
\* the sample admin, an admin and a host of a company and of every user
\* created since, and the verification tokens that were mailed.
AccountTokens ==
    {NoToken, InvalidToken}
        \cup {t \in SignedTokens : t.id \in {1, 3, 4} \/ t.id > Cardinality(DOMAIN SampleUsers)}

ReceiveRegisterCompanyAccount ==
    \E email \in {"al@acme.com", "zed@beta.com"}, companyName \in {"Acme", "Zeta"} :
        Receive(RegisterCompanyRequest(email, <<"Z","e","d">>, <<>>, "pw", companyName))

DoRegisterCompanyAccount ==
    req.op = "registerCompany" /\ res = NoResponse /\ RegisterCompany(req, "none", 0)

ReceiveRegister ==
    \E token \in AccountTokens, email \in {"bo@acme.com", "hal@acme.com"} :
        Receive(Bearer(token, RegisterRequest(NoUser, email, <<"H","a","l">>, <<>>, "pw")))

DoRegister == req.op = "register" /\ res = NoResponse /\ Protected("register", Register(req, "none"))

ReceiveLogin ==
    \E email \in {"al@acme.com", "hal@acme.com", "zed@beta.com", "no@acme.com"},
       password \in {"pw", "guess"} :
        Receive(LoginRequest(email, password))

DoLogin == req.op = "login" /\ res = NoResponse /\ Login(req)

ReceiveVerifyEmail == \E token \in AccountTokens : Receive(VerifyEmailRequest(token))

DoVerifyEmail == req.op = "verifyEmail" /\ res = NoResponse /\ VerifyEmail(req)

ReceiveGetUsers ==
    \E token \in AccountTokens :
        Receive(Bearer(token, QueryRequest("users", NoUser, Query(Absent, Absent, Absent, <<>>, <<>>))))

DoGetUsers == req.op = "users" /\ res = NoResponse /\ Protected("users", GetUsers(req.user))

ReceiveCheckInAccount ==
    \E token \in AccountTokens :
        Receive(Bearer(token, Request("checkin", NoUser, <<"A","n">>, "alice@x.com", <<"B","o">>,
                                      "ID1", 0)))

DoCheckInAccount ==
    req.op = "checkin" /\ res = NoResponse /\ Protected("checkin", CheckIn(req, "none", 0))

ReceiveCheckoutAccount ==
    \E token \in AccountTokens, id \in VisitIds :
        Receive(Bearer(token, Request("checkout", NoUser, <<>>, "", <<>>, "", id)))

DoCheckoutAccount ==
    req.op = "checkout" /\ res = NoResponse /\ Protected("checkout", Checkout(req.user, req.id))

ReceiveGetVisitsAccount ==
    \E token \in AccountTokens :
        Receive(Bearer(token, QueryRequest("visits", NoUser, Query(Absent, Absent, Absent, <<>>, <<>>))))

DoGetVisitsAccount ==
    req.op = "visits" /\ res = NoResponse /\ Protected("visits", GetVisits(req.user, req.query))

ReceiveGetHostVisitsAccount ==
    \E token \in AccountTokens :
        Receive(Bearer(token, QueryRequest("hostVisits", NoUser, Query(Absent, Absent, Absent, <<>>, <<>>))))

DoGetHostVisitsAccount ==
    req.op = "hostVisits" /\ res = NoResponse
        /\ Protected("hostVisits", GetHostVisits(req.user, req.query))

\* Companies and hosts are registered, emails verified and tokens obtained,
\* and every protected route is called with and without a valid token.
NextAccount ==
    \/ ReceiveRegisterCompanyAccount \/ DoRegisterCompanyAccount
    \/ ReceiveRegister \/ DoRegister
    \/ ReceiveLogin \/ DoLogin
    \/ ReceiveVerifyEmail \/ DoVerifyEmail
    \/ ReceiveGetUsers \/ DoGetUsers
    \/ ReceiveCheckInAccount \/ DoCheckInAccount
    \/ ReceiveCheckoutAccount \/ DoCheckoutAccount
    \/ ReceiveGetVisitsAccount \/ DoGetVisitsAccount
    \/ ReceiveGetHostVisitsAccount \/ DoGetHostVisitsAccount
    \/ EndRequest

SpecAccount == Init /\ [][NextAccount]_vars

\* --------------------------------------------------------- admin dashboard
\* The admin whose dashboard is open (localStorage 'user', written at login).
DashAdmin == [id |-> 3, role |-> "admin"]

\* A call of fetchVisits: the filters it was created with, and the response
\* of getVisits once its promise has resolved.
Fetch(f) == [filters |-> f, done |-> FALSE, rows |-> <<>>]

\* activeFilters: the filters that are not '' become the query string.
activeFilters(f) == Query(Absent, f.startDate, f.endDate, f.hostName, f.visitorName)

\* visitsData.filter((visit, index, self) =>
\*     index === self.findIndex(v => v.id === visit.id)).
RECURSIVE uniqueVisits(_)
uniqueVisits(visitsData) ==
    IF visitsData = <<>> THEN <<>>
    ELSE LET n == Len(visitsData)
             init == uniqueVisits(SubSeq(visitsData, 1, n - 1))
         IN  IF \E j \in 1..(n - 1) : visitsData[j] = visitsData[n]
             THEN init ELSE Append(init, visitsData[n])

\* The mount effect sets userRole; fetchVisits is re-created and the effect
\* that depends on it calls it.
Mount ==
    /\ userRole = NULL
    /\ userRole' = DashAdmin.role
    /\ fetches' = Append(fetches, Fetch(filters))
    /\ UNCHANGED <<users, companies, visitors, visits, nextUserId, nextVisitorId,
                   nextVisitId, now, pool, req, res, pc, tx, hist, mail, filters, dashVisits>>

\* handleFilterChange: setFilters; fetchVisits is re-created, and the effect
\* calls it with the new filters while earlier calls may be awaiting.
handleFilterChange(name, value) ==
    /\ userRole # NULL
    /\ Len(fetches) < MaxFetches
    /\ value # filters[name]
    /\ filters' = [filters EXCEPT ![name] = value]
    /\ fetches' = Append(fetches, Fetch(filters'))
    /\ UNCHANGED <<users, companies, visitors, visits, nextUserId, nextVisitorId,
                   nextVisitId, now, pool, req, res, pc, tx, hist, mail, userRole, dashVisits>>

\* The promise of one awaiting call resolves with the rows GET /api/visits
\* returns for its filters, and the call runs setVisits(uniqueVisits).
getVisitsResolves(i) ==
    /\ ~fetches[i].done
    /\ \E rows \in OrderByCheckInTimeDesc(
                       visitsOfCompany(users[DashAdmin.id].company_name,
                                       activeFilters(fetches[i].filters))) :
          /\ fetches' = [fetches EXCEPT ![i] = [@ EXCEPT !.done = TRUE, !.rows = rows]]
          /\ dashVisits' = uniqueVisits(rows)
    /\ UNCHANGED <<users, companies, visitors, visits, nextUserId, nextVisitorId,
                   nextVisitId, now, pool, req, res, pc, tx, hist, mail, filters, userRole>>

ReceiveCheckInDash ==
    \E email \in Emails :
        Receive(Request("checkin", [id |-> 4, role |-> "host"], VisitorName(email), email,
                        users[4].name, "ID1", 0))

ChangeFilter ==
    \/ \E value \in {<<>>, <<"A">>, <<"C">>} : handleFilterChange("visitorName", value)
    \/ \E value \in {<<>>, <<"o">>} : handleFilterChange("hostName", value)

ResolveFetch == \E i \in DOMAIN fetches : getVisitsResolves(i)

\* The dashboard of an admin is open while visitors are checked in.
NextDash ==
    \/ ReceiveCheckInDash \/ DoCheckIn \/ EndRequest
    \/ Mount \/ ChangeFilter \/ ResolveFetch

SpecDash == Init /\ [][NextDash]_vars

\* ------------------------------------------------------ concurrent requests
\* Handlers interleave at their awaits.  Each in-flight check-in holds its
\* own connection and transaction; a SELECT reads the committed rows, an
\* INSERT takes the table's next AUTO_INCREMENT value at once and its row
\* becomes visible to others at commit.
Procs == {"p", "q"}

\* A handler that is not running, with the status of its last response.
Idle(status) == [name |-> <<>>, email |-> "", host_id |-> 0, id |-> 0,
                 check_out_time |-> NULL_TIME,
                 seen |-> {}, work |-> NoRows, status |-> status]

\* POST /api/visits up to the host's company lookup: getConnection,
\* beginTransaction and the SELECTs on users.
TxBegin(p, r) ==
    LET h == ResolveHost(r.user, r.hostName)
        status == IF h.status # 0 THEN h.status
                  ELSE IF hostCompanyInfo(h.host_id) = {} THEN 400 ELSE 0
    IN  /\ pc[p] = "idle"
        /\ IF status # 0
           THEN /\ tx' = [tx EXCEPT ![p] = Idle(status)]
                /\ pc' = pc
           ELSE /\ tx' = [tx EXCEPT ![p] = [Idle(0) EXCEPT !.name = r.name, !.email = r.email,
                                                          !.host_id = h.host_id]]
                /\ pc' = [pc EXCEPT ![p] = "activeVisits"]
        /\ UNCHANGED <<users, companies, nextUserId, pool, visitors, visits, nextVisitorId, nextVisitId, now, req, res, hist, mail, filters, userRole, dashVisits, fetches>>

\* The active-visit SELECT and the 409 return.
TxSelectActive(p) ==
    /\ pc[p] = "activeVisits"
    /\ IF activeVisits(tx[p].email, users[tx[p].host_id].company_name) # {}
       THEN /\ tx' = [tx EXCEPT ![p] = Idle(409)]
            /\ pc' = [pc EXCEPT ![p] = "idle"]
       ELSE /\ tx' = [tx EXCEPT ![p].seen = DOMAIN visits]
            /\ pc' = [pc EXCEPT ![p] = "insertVisitor"]
    /\ UNCHANGED <<users, companies, nextUserId, pool, visitors, visits, nextVisitorId, nextVisitId, now, req, res, hist, mail, filters, userRole, dashVisits, fetches>>

\* INSERT INTO visitors.
TxInsertVisitor(p) ==
    /\ pc[p] = "insertVisitor"
    /\ nextVisitorId <= MaxVisits
    /\ tx' = [tx EXCEPT ![p].work = InsertVisitor(@, nextVisitorId, tx[p].name, tx[p].email)]
    /\ nextVisitorId' = nextVisitorId + 1
    /\ pc' = [pc EXCEPT ![p] = "insertVisit"]
    /\ UNCHANGED <<users, companies, nextUserId, pool, visitors, visits, nextVisitId, now, req, res, hist, mail, filters, userRole, dashVisits, fetches>>

\* check_in_time = new Date() and INSERT INTO visits, for the visitor row
\* just inserted.
TxInsertVisit(p) ==
    /\ pc[p] = "insertVisit"
    /\ nextVisitId <= MaxVisits
    /\ \E visitor_id \in DOMAIN tx[p].work.visitors :
        tx' = [tx EXCEPT ![p].work = InsertVisit(@, nextVisitId, visitor_id, tx[p].host_id, now)]
    /\ nextVisitId' = nextVisitId + 1
    /\ pc' = [pc EXCEPT ![p] = "commit"]
    /\ UNCHANGED <<users, companies, nextUserId, pool, visitors, visits, nextVisitorId, now, req, res, hist, mail, filters, userRole, dashVisits, fetches>>

\* connection.commit() and the 201 response.
TxCommit(p) ==
    LET after == Commit(Tables(visitors, visits), tx[p].work)
    IN  /\ pc[p] = "commit"
        /\ visitors' = after.visitors
        /\ visits' = after.visits
        /\ hist' = [v \in DOMAIN tx[p].work.visits |-> tx[p].seen] @@ hist
        /\ tx' = [tx EXCEPT ![p] = Idle(201)]
        /\ pc' = [pc EXCEPT ![p] = "idle"]
        /\ UNCHANGED <<users, companies, nextUserId, pool, nextVisitorId, nextVisitId, now, req, res, mail, filters, userRole, dashVisits, fetches>>

\* PUT /api/visits/:id/checkout up to the UPDATE: the ownership SELECT made
\* for a host, its 403 return, and check_out_time = new Date().
CoBegin(p, u, id) ==
    /\ pc[p] = "idle"
    /\ IF u.role = "host" /\ NotOwnVisit(u, id)
       THEN /\ tx' = [tx EXCEPT ![p] = Idle(403)]
            /\ pc' = pc
       ELSE /\ tx' = [tx EXCEPT ![p] = [Idle(0) EXCEPT !.id = id, !.check_out_time = now]]
            /\ pc' = [pc EXCEPT ![p] = "update"]
    /\ UNCHANGED <<users, companies, nextUserId, pool, visitors, visits, nextVisitorId, nextVisitId, now, req, res, hist, mail, filters, userRole, dashVisits, fetches>>

\* The conditional UPDATE and the response chosen from affectedRows.
CoUpdate(p) ==
    LET affectedRows == Cardinality(UpdateMatches(tx[p].id))
    IN  /\ pc[p] = "update"
        /\ visits' = UpdateCheckOut(tx[p].id, tx[p].check_out_time)
        /\ now' = IF affectedRows > 0 THEN now + 1 ELSE now
        /\ tx' = [tx EXCEPT ![p] = Idle(IF affectedRows > 0 THEN 200 ELSE 404)]
        /\ pc' = [pc EXCEPT ![p] = "idle"]
        /\ UNCHANGED <<users, companies, nextUserId, pool, visitors, nextVisitorId, nextVisitId, req, res, hist, mail, filters, userRole, dashVisits, fetches>>

InitConc ==
    /\ users = SampleUsers
    /\ companies = SampleCompanies
    /\ visitors = <<>>
    /\ visits = <<>>
    /\ nextUserId = Cardinality(DOMAIN SampleUsers) + 1
    /\ nextVisitorId = 1
    /\ nextVisitId = 1
    /\ now = 1
    /\ pool = NoConnection
    /\ req = NoRequest
    /\ res = NoResponse
    /\ pc = [p \in Procs |-> "idle"]
    /\ tx = [p \in Procs |-> Idle(0)]
    /\ hist = <<>>
    /\ mail = {}
    /\ filters = NoFilters
    /\ userRole = NULL
    /\ dashVisits = <<>>
    /\ fetches = <<>>

\* The concurrent requests come from the users of the registered companies
\* and are for one visitor email and one host name in two spellings (a host
\* of that name exists in each company).
ConcEmails == {"alice@x.com"}
ConcHostNames == {<<"B","o">>, <<"b","O">>}
ConcCallers == {u \in authenticateToken : users[u.id].company_name \in Companies}

NextConc ==
    \E p \in Procs :
        \/ \E u \in ConcCallers, email \in ConcEmails, hostName \in ConcHostNames,
              idCardNumber \in IdCardNumbers :
                TxBegin(p, Request("checkin", u, VisitorName(email), email, hostName,
                                   idCardNumber, 0))
        \/ TxSelectActive(p)
        \/ TxInsertVisitor(p)
        \/ TxInsertVisit(p)
        \/ TxCommit(p)
        \/ \E u \in ConcCallers, id \in VisitIds : CoBegin(p, u, id)
        \/ CoUpdate(p)

\* Requests of two clients handled concurrently.
SpecConc == InitConc /\ [][NextConc]_vars

\* ================================================================== claims
\* Vocabulary of the claims, stated on the tables.
Active(v) == visits[v].check_out_time = NULL_TIME
EmailOf(v) == visitors[visits[v].visitor_id].email
CompanyOf(v) == users[visits[v].host_id].company_name
ActiveFor(E, C) == {v \in DOMAIN visits : Active(v) /\ EmailOf(v) = E /\ CompanyOf(v) = C}

\* Two names are equal ignoring letter case.
CasePairs == {<<"A","a">>, <<"B","b">>, <<"C","c">>, <<"L","l">>, <<"O","o">>,
              <<"T","t">>, <<"Y","y">>}
SameLetter(a, b) == a = b \/ <<a, b>> \in CasePairs \/ <<b, a>> \in CasePairs
SameIgnoringCase(s, t) == Len(s) = Len(t) /\ \A i \in DOMAIN s : SameLetter(s[i], t[i])

\* The hosts a check-in request (caller, hostName) is a check-in to: a host
\* caller names themself; an admin names a host of the admin's own company.
TargetHosts(caller, hostName) ==
    {h \in DOMAIN users :
        /\ users[h].role = "host"
        /\ \/ users[caller].role = "host" /\ h = caller
                /\ SameIgnoringCase(users[h].name, hostName)
           \/ users[caller].role = "admin" /\ users[h].name = hostName
                /\ users[caller].company_name \in Companies
                /\ users[h].company_name = users[caller].company_name}

\* The step is the handling of the received check-in / checkout request.
IsCheckIn == req.op = "checkin" /\ res = NoResponse /\ res'.op = "checkin"
IsCheckout == req.op = "checkout" /\ res = NoResponse /\ res'.op = "checkout"
NoRowCreated == visitors' = visitors /\ visits' = visits
\* The step created visitor and visit rows for the request's email and host h.
CreatedFor(h) ==
    /\ res'.id \in DOMAIN visits' \ DOMAIN visits
    /\ DOMAIN visits' = DOMAIN visits \cup {res'.id}
    /\ \A v \in DOMAIN visits : visits'[v] = visits[v]
    /\ visits'[res'.id].host_id = h
    /\ visits'[res'.id].check_out_time = NULL_TIME
    /\ visits'[res'.id].visitor_id \in DOMAIN visitors' \ DOMAIN visitors
    /\ DOMAIN visitors' = DOMAIN visitors \cup {visits'[res'.id].visitor_id}
    /\ \A w \in DOMAIN visitors : visitors'[w] = visitors[w]
    /\ visitors'[visits'[res'.id].visitor_id].email = req.email

\* C1: with requests handled one at a time, for every visitor email E and
\* every company C at most one visit of a visitor with email E to a host of
\* company C has check_out_time NULL.
C1_OneActiveVisitPerEmailAndCompany ==
    \A E \in Emails, C \in Companies : Cardinality(ActiveFor(E, C)) <= 1

\* C1 witness: an email has a checked-out and an active visit in one company.
C1_Witness ==
    \E v \in DOMAIN visits, w \in DOMAIN visits :
        /\ v # w /\ EmailOf(v) = EmailOf(w)
        /\ CompanyOf(v) = CompanyOf(w) /\ CompanyOf(v) \in Companies
        /\ ~Active(v) /\ Active(w)

\* C2: two check-ins for one email and one company that run concurrently
\* can both commit: whenever two visits of one email to one company are
\* both active, neither transaction's active-visit SELECT ran after the
\* other's commit (both SELECTs ran before either commit).
C2_DuplicateOnlyByRace ==
    \A v \in DOMAIN visits, w \in DOMAIN visits :
        ( /\ v # w /\ Active(v) /\ Active(w)
          /\ EmailOf(v) = EmailOf(w)
          /\ CompanyOf(v) = CompanyOf(w) /\ CompanyOf(v) \in Companies )
        => w \notin hist[v] /\ v \notin hist[w]

\* C2 witness: both requests have committed and the email has two active
\* visits in one company.
C2_Witness ==
    \E v \in DOMAIN visits, w \in DOMAIN visits :
        /\ v # w /\ Active(v) /\ Active(w)
        /\ EmailOf(v) = EmailOf(w)
        /\ CompanyOf(v) = CompanyOf(w) /\ CompanyOf(v) \in Companies
        /\ \A p \in Procs : pc[p] = "idle" /\ tx[p].status = 201

\* C3: a check-in for email E to a host of company C2 succeeds (201, new
\* visitor and visit rows) while E has an active visit in another company
\* and none in C2; a 409 is answered only when E has an active visit whose
\* host has the company_name of the host the request is for.
C3_OtherCompanyDoesNotBlock ==
    [][IsCheckIn =>
        \A h \in TargetHosts(req.user.id, req.hostName) :
            /\ ( /\ users[h].company_name \in Companies
                 /\ ActiveFor(req.email, users[h].company_name) = {}
                 /\ \E C1 \in Companies \ {users[h].company_name} :
                        ActiveFor(req.email, C1) # {} )
               => res'.status = 201 /\ CreatedFor(h)
            /\ res'.status = 409
               => ActiveFor(req.email, users[h].company_name) # {}]_vars

\* C3 witness: a check-in has just succeeded for an email that has an active
\* visit in another company.
C3_Witness ==
    /\ res.op = "checkin" /\ res.status = 201
    /\ \E v \in DOMAIN visits :
        /\ v # res.id /\ Active(v) /\ EmailOf(v) = EmailOf(res.id)
        /\ CompanyOf(v) \in Companies /\ CompanyOf(res.id) \in Companies
        /\ CompanyOf(v) # CompanyOf(res.id)

\* C4: for a visitor email E and a company C, while E has an active visit in
\* C every check-in for E to a host of C is rejected with 409; the checkout
\* of the active visit succeeds and sets check_out_time to a non-null
\* timestamp; and when E has no active visit in C (so after the checkout) a
\* check-in for E to a host of C succeeds.
C4_CheckInCheckoutCycle ==
    [][/\ IsCheckIn =>
            \A h \in TargetHosts(req.user.id, req.hostName) :
                users[h].company_name \in Companies =>
                    IF ActiveFor(req.email, users[h].company_name) # {}
                    THEN res'.status = 409 /\ NoRowCreated
                    ELSE res'.status = 201 /\ CreatedFor(h)
       /\ ( /\ IsCheckout /\ req.id \in DOMAIN visits
            /\ Active(req.id)
            /\ users[req.user.id].role = "host" => visits[req.id].host_id = req.user.id )
          => /\ res'.status = 200
             /\ visits'[req.id].check_out_time # NULL_TIME]_vars

\* C4 witness: the whole cycle has run: a check-in for E to company C has
\* just succeeded and an earlier visit of E to C is checked out.
C4_Witness ==
    /\ res.op = "checkin" /\ res.status = 201
    /\ \E v \in DOMAIN visits :
        /\ v # res.id /\ ~Active(v) /\ EmailOf(v) = EmailOf(res.id)
        /\ CompanyOf(v) \in Companies /\ CompanyOf(v) = CompanyOf(res.id)

\* C5 as stated: once a visit is checked out, every later checkout request
\* for it affects no row and is answered with 404.
C5_Original ==
    [][( IsCheckout /\ req.id \in DOMAIN visits /\ ~Active(req.id) )
        => res'.status = 404 /\ visits' = visits]_vars

\* C5 amended: once a visit is checked out, every later checkout request for
\* it affects no row and leaves its check_out_time as the first checkout set
\* it; the request is answered with 404, or with 403 when the caller is a
\* host other than the visit's host.
C5_CheckoutIdempotent ==
    [][( IsCheckout /\ req.id \in DOMAIN visits /\ ~Active(req.id) )
        => /\ visits' = visits
           /\ res'.status =
                IF users[req.user.id].role = "host" /\ visits[req.id].host_id # req.user.id
                THEN 403 ELSE 404]_vars

\* C5 witness: a checkout of an already checked-out visit was answered 404.
C5_Witness ==
    /\ res.op = "checkout" /\ res.status = 404
    /\ res.id \in DOMAIN visits /\ ~Active(res.id)

\* C6: a checkout request by a host for an existing visit of another host is
\* rejected with 403 and the visit's check_out_time is unchanged.
C6_HostChecksOutOwnVisitsOnly ==
    [][( /\ IsCheckout /\ users[req.user.id].role = "host"
         /\ req.id \in DOMAIN visits /\ visits[req.id].host_id # req.user.id )
        => res'.status = 403 /\ visits' = visits]_vars

\* C6 witness: a host was refused the checkout of another host's active visit.
C6_Witness ==
    /\ res.op = "checkout" /\ res.status = 403
    /\ res.id \in DOMAIN visits /\ Active(res.id)
    /\ users[req.user.id].role = "host"
    /\ visits[res.id].host_id # req.user.id

\* C7: in every committed state each visitor row is referenced by exactly
\* one visit row and each visit row references a visitor row, also after
\* check-ins that failed at any step, so a failed check-in leaves no visitor
\* row behind.
C7_VisitorsAndVisitsOneToOne ==
    /\ \A w \in DOMAIN visitors :
            Cardinality({v \in DOMAIN visits : visits[v].visitor_id = w}) = 1
    /\ \A v \in DOMAIN visits : visits[v].visitor_id \in DOMAIN visitors

\* C7 witness: a check-in failed after its visitor INSERT had run (the
\* visitors counter is ahead of the visits counter).
C7_Witness ==
    /\ res.op = "checkin" /\ res.status = 500
    /\ nextVisitorId > nextVisitId

\* C8: a check-in by a host succeeds only if hostName equals the caller's
\* stored name ignoring letter case, otherwise it is rejected with 403 and
\* no row is created; a visit created by a host has the caller as host_id.
C8_HostChecksInForSelfOnly ==
    [][( IsCheckIn /\ users[req.user.id].role = "host" ) =>
        /\ res'.status = 201 =>
            /\ SameIgnoringCase(req.hostName, users[req.user.id].name)
            /\ CreatedFor(req.user.id)
        /\ ~SameIgnoringCase(req.hostName, users[req.user.id].name) =>
            res'.status = 403 /\ NoRowCreated]_vars

\* C8 witness: a host checked a visitor in under a hostName that differs
\* from the stored name in letter case only.
C8_Witness ==
    /\ res.op = "checkin" /\ res.status = 201
    /\ users[req.user.id].role = "host"
    /\ req.hostName # users[req.user.id].name

\* The users an admin's check-in may attach the visit to.
HostsNamed(admin, hostName) ==
    {h \in DOMAIN users : /\ users[h].name = hostName /\ users[h].role = "host"
                          /\ SqlEq(users[h].company_name, users[admin].company_name)}

\* C9 as stated: a check-in by an admin attaches the visit to a host named
\* hostName of the admin's company, and is rejected with 404, creating no
\* row, if there is no such user.
C9_Original ==
    [][( IsCheckIn /\ users[req.user.id].role = "admin" ) =>
        /\ res'.status = 201 =>
            \E h \in HostsNamed(req.user.id, req.hostName) : CreatedFor(h)
        /\ HostsNamed(req.user.id, req.hostName) = {} =>
            res'.status = 404 /\ NoRowCreated]_vars

\* C9 amended: a check-in by an admin attaches the visit to a host named
\* hostName of the admin's company; it is rejected, creating no row, with
\* 400 if the admin has no company_name and otherwise with 404 if there is
\* no such user.  No visit created by an admin has a host outside the
\* admin's company.
C9_AdminChecksInForOwnCompany ==
    [][( IsCheckIn /\ users[req.user.id].role = "admin" ) =>
        /\ res'.status = 201 =>
            \E h \in HostsNamed(req.user.id, req.hostName) : CreatedFor(h)
        /\ HostsNamed(req.user.id, req.hostName) = {} =>
            /\ NoRowCreated
            /\ res'.status = IF users[req.user.id].company_name = NULL THEN 400 ELSE 404]_vars

\* C9 witness: an admin's check-in has created a visit for a host of the
\* admin's company.
C9_Witness ==
    /\ res.op = "checkin" /\ res.status = 201
    /\ users[req.user.id].role = "admin"
    /\ users[visits[res.id].host_id].company_name = users[req.user.id].company_name

\* C10 as stated: a check-in whose caller or resolved host has no
\* company_name fails and creates no row, for admins and hosts alike.
C10_UnsetCompanyFails ==
    [][( /\ IsCheckIn
         /\ \/ users[req.user.id].company_name = NULL
            \/ \E h \in TargetHosts(req.user.id, req.hostName) : users[h].company_name = NULL )
        => res'.status # 201 /\ NoRowCreated]_vars

\* C11: every successful check-in inserts exactly one new visitor row and no
\* other step inserts or changes one (so the visitor rows are as many as the
\* successful check-ins), also when a visitor row of the same email exists;
\* a check-in for an email that has a visitor row but no active visit in
\* the company of the host it is for succeeds.
C11_OneVisitorRowPerCheckIn ==
    [][/\ ( IsCheckIn /\ res'.status = 201 )
          => /\ Cardinality(DOMAIN visitors') = Cardinality(DOMAIN visitors) + 1
             /\ \A w \in DOMAIN visitors : w \in DOMAIN visitors' /\ visitors'[w] = visitors[w]
       /\ ~( IsCheckIn /\ res'.status = 201 ) => visitors' = visitors
       /\ ( /\ IsCheckIn
            /\ \E w \in DOMAIN visitors : visitors[w].email = req.email )
          => \A h \in TargetHosts(req.user.id, req.hostName) :
                ( /\ users[h].company_name \in Companies
                  /\ ActiveFor(req.email, users[h].company_name) = {} )
                => res'.status = 201]_vars

\* C11 witness: a check-in has just succeeded and its new visitor row has
\* the email of an earlier visitor row, whose visit is checked out.
C11_Witness ==
    /\ res.op = "checkin" /\ res.status = 201
    /\ \E w \in DOMAIN visitors :
        /\ w # visits[res.id].visitor_id
        /\ visitors[w].email = visitors[visits[res.id].visitor_id].email
        /\ \A v \in DOMAIN visits : visits[v].visitor_id = w => ~Active(v)

\* C12: in every step each existing visit row is either unchanged, or the
\* step is the checkout of that visit and its check_out_time goes from NULL
\* to a timestamp while its other fields, all other visits and all visitors
\* are unchanged; a set check_out_time is never changed again.
C12_VisitChangedOnlyByCheckout ==
    [][\A v \in DOMAIN visits :
        /\ v \in DOMAIN visits'
        /\ \/ visits'[v] = visits[v]
           \/ /\ IsCheckout /\ req.id = v
              /\ visits[v].check_out_time = NULL_TIME
              /\ visits'[v].check_out_time # NULL_TIME
              /\ visits'[v] = [visits[v] EXCEPT !.check_out_time = visits'[v].check_out_time]
              /\ DOMAIN visits' = DOMAIN visits
              /\ \A w \in DOMAIN visits \ {v} : visits'[w] = visits[w]
              /\ visitors' = visitors]_vars

\* C12 witness: a visit has just been checked out while another visit is
\* active.
C12_Witness ==
    /\ res.op = "checkout" /\ res.status = 200
    /\ visits[res.id].check_out_time # NULL_TIME
    /\ \E w \in DOMAIN visits : w # res.id /\ Active(w)

\* C13 as stated: a checkout request for a visit id that does not exist and
\* one for a visit that is already checked out are both answered with 404,
\* for a caller of either role.
C13_Original ==
    [][( IsCheckout /\ ( req.id \notin DOMAIN visits \/ ~Active(req.id) ) )
        => res'.status = 404]_vars

\* C13 amended: for an admin caller a checkout request for a visit id that
\* does not exist and one for a visit that is already checked out are both
\* answered with 404; for a host caller the ownership test comes first, so
\* a visit id that does not exist is answered with 403, and a visit that is
\* already checked out with 404 if it is the caller's own and with 403
\* otherwise.  No row changes in any of these cases.
C13_NotFoundCollapse ==
    [][( IsCheckout /\ ( req.id \notin DOMAIN visits \/ ~Active(req.id) ) )
        => /\ visits' = visits
           /\ res'.status =
                IF users[req.user.id].role = "admin" THEN 404
                ELSE IF req.id \notin DOMAIN visits THEN 403
                ELSE IF visits[req.id].host_id = req.user.id THEN 404 ELSE 403]_vars

\* C13 witness: an admin's checkout of a visit id that does not exist was
\* answered with 404 while a checked-out visit exists.
C13_Witness ==
    /\ res.op = "checkout" /\ res.status = 404
    /\ users[req.user.id].role = "admin"
    /\ res.id \notin DOMAIN visits
    /\ \E v \in DOMAIN visits : ~Active(v)

\* C14: of two checkout requests for one active visit that have both come to
\* their UPDATE, the one whose UPDATE runs first is answered with 200 and
\* writes its own timestamp, and the other is answered with 404 and leaves
\* that timestamp in place: whenever a request's UPDATE runs, it gets 200
\* and sets check_out_time to its timestamp if the visit is active, and
\* gets 404 and changes no row otherwise.
C14_ConcurrentCheckoutOneWinner ==
    [][\A p \in Procs :
        ( pc[p] = "update" /\ pc'[p] = "idle" ) =>
            IF tx[p].id \in DOMAIN visits /\ Active(tx[p].id)
            THEN /\ tx'[p].status = 200
                 /\ visits'[tx[p].id].check_out_time = tx[p].check_out_time
                 /\ \A q \in Procs \ {p} :
                        ( pc[q] = "update" /\ tx[q].id = tx[p].id ) =>
                            /\ pc'[q] = "update" /\ tx'[q] = tx[q]
                            /\ ~Active(tx[q].id)'
            ELSE tx'[p].status = 404 /\ visits' = visits]_vars

\* C14 witness: two requests for one active visit overlapped: one has been
\* answered with 200 and its timestamp is written, the other read the clock
\* no later and is still at its UPDATE.
C14_Witness ==
    \E p \in Procs, q \in Procs :
        /\ p # q /\ pc[p] = "update" /\ pc[q] = "idle" /\ tx[q].status = 200
        /\ tx[p].id \in DOMAIN visits
        /\ visits[tx[p].id].check_out_time # NULL_TIME
        /\ tx[p].check_out_time < visits[tx[p].id].check_out_time

\* The step is the handling of the received list request.
IsGetVisits == req.op = "visits" /\ res = NoResponse /\ res'.op = "visits"
IsGetHostVisits == req.op = "hostVisits" /\ res = NoResponse /\ res'.op = "hostVisits"
Range(f) == {f[i] : i \in DOMAIN f}

\* C15: GET /visits by an admin of a company returns (200) only visits whose
\* host's company_name equals the admin's, whatever parameters are passed,
\* also the hostId of a host of another company; any other caller gets no
\* visit at all.
C15_AdminSeesOwnCompanyOnly ==
    [][IsGetVisits =>
        IF users[req.user.id].role = "admin" /\ users[req.user.id].company_name \in Companies
        THEN /\ res'.status = 200
             /\ \A v \in Range(res'.rows) :
                    CompanyOf(v) = users[req.user.id].company_name
        ELSE res'.status # 200 /\ res'.rows = <<>>]_vars

\* C15 witness: an admin passed the hostId of a host of another company who
\* has a visit, and got an empty list while the admin's company has visits.
C15_Witness ==
    /\ res.op = "visits" /\ res.status = 200 /\ res.rows = <<>>
    /\ req.query.hostId \in DOMAIN users
    /\ users[req.query.hostId].company_name # users[req.user.id].company_name
    /\ \E v \in DOMAIN visits : visits[v].host_id = req.query.hostId
    /\ \E v \in DOMAIN visits : CompanyOf(v) = users[req.user.id].company_name

\* C16: GET /host-visits by a host returns (200) each visit whose host_id is
\* the caller's id exactly once and no other visit, whatever parameters the
\* request passes.
C16_HostSeesOwnVisits ==
    [][( IsGetHostVisits /\ users[req.user.id].role = "host" ) =>
        /\ res'.status = 200
        /\ Range(res'.rows) = {v \in DOMAIN visits : visits[v].host_id = req.user.id}
        /\ Len(res'.rows) = Cardinality(Range(res'.rows))]_vars

\* C16 witness: a host passed the hostId of another host who has a visit and
\* got the list of their own visits.
C16_Witness ==
    /\ res.op = "hostVisits" /\ res.status = 200 /\ res.rows # <<>>
    /\ req.query.hostId \notin {Absent, req.user.id}
    /\ \E v \in DOMAIN visits : visits[v].host_id = req.query.hostId

\* A list of characters occurs in a name.
Contains(s, x) == \E i \in 1..(Len(s) - Len(x) + 1) : SubSeq(s, i, i + Len(x) - 1) = x

\* The parameters of q that are passed, and q with parameter c alone.
Supplied(q) == {c \in DOMAIN q : IF c \in {"hostName", "visitorName"} THEN q[c] # <<>>
                                                                          ELSE q[c] # Absent}
Alone(q, c) == [d \in DOMAIN q |-> IF d = c THEN q[d]
                                  ELSE IF d \in {"hostName", "visitorName"} THEN <<>> ELSE Absent]

\* Visit v passes the filters of q, the date bounds taken inclusively on the
\* calendar date of check_in_time.
Passes(v, q) ==
    /\ "hostId" \in Supplied(q) => visits[v].host_id = q.hostId
    /\ "startDate" \in Supplied(q) => q.startDate <= DateOf(visits[v].check_in_time)
    /\ "endDate" \in Supplied(q) => DateOf(visits[v].check_in_time) <= q.endDate
    /\ "hostName" \in Supplied(q) => Contains(users[visits[v].host_id].name, q.hostName)
    /\ "visitorName" \in Supplied(q) => Contains(visitors[visits[v].visitor_id].name, q.visitorName)

\* C17: the list an admin gets for a set of filters is exactly the visits of
\* the admin's company that pass every filter passed, which is the
\* intersection of the lists each filter gives alone; the date bounds are
\* inclusive on the calendar date of check_in_time.
C17_FiltersComposeConjunctively ==
    [][( IsGetVisits /\ res'.status = 200 ) =>
        LET company == users[req.user.id].company_name
            ofCompany == {v \in DOMAIN visits : CompanyOf(v) = company}
        IN  /\ Range(res'.rows) = {v \in ofCompany : Passes(v, req.query)}
            /\ Range(res'.rows) =
                 {v \in ofCompany : \A c \in Supplied(req.query) :
                                        v \in visitsOfCompany(company, Alone(req.query, c))}]_vars

\* C17 witness: an admin passed a start date and a host name; the list has a
\* visit checked in on the start date itself, and leaves out a visit of the
\* company that passes one of the two filters and not the other.
C17_Witness ==
    /\ res.op = "visits" /\ res.status = 200
    /\ {"startDate", "hostName"} \subseteq Supplied(req.query)
    /\ \E v \in Range(res.rows) : DateOf(visits[v].check_in_time) = req.query.startDate
    /\ \E w \in DOMAIN visits \ Range(res.rows) :
        /\ CompanyOf(w) = users[req.user.id].company_name
        /\ \E c \in {"startDate", "hostName"} : Passes(w, Alone(req.query, c))

\* C18: a check-in whose body lacks name, email, hostName or idCardNumber is
\* answered 400 before a connection is taken or a transaction begun, and
\* creates no row (and uses no AUTO_INCREMENT value), whatever would have
\* failed later.
LacksField ==
    req.name = <<>> \/ req.email = "" \/ req.hostName = <<>> \/ req.idCardNumber = ""
C18_MissingFieldRejectedFirst ==
    [][IsCheckIn /\ LacksField =>
          /\ res'.status = 400
          /\ pool'.acquired = 0 /\ pool'.released = 0 /\ pool'.held = pool.held
          /\ NoRowCreated
          /\ nextVisitorId' = nextVisitorId /\ nextVisitId' = nextVisitId]_vars

\* A check-in complete but for its id card number has been answered 400
\* without a connection.
C18_Witness ==
    /\ req.op = "checkin" /\ res.op = "checkin" /\ res.status = 400
    /\ req.name # <<>> /\ req.email # "" /\ req.hostName # <<>> /\ req.idCardNumber = ""
    /\ pool.acquired = 0

\* C19: every connection taken by a check-in or by registerCompany is
\* released exactly once on every path: the handler that answered anything
\* but the 400 of the validation took one connection, no handler takes more
\* than one, what it took it released (also when rollback() itself failed
\* and no response was sent), and no connection is held between requests.
IsRegisterCompany ==
    req.op = "registerCompany" /\ res = NoResponse /\ res'.op = "registerCompany"
C19_ConnectionReleasedOnce ==
    [][/\ (IsCheckIn \/ IsRegisterCompany) =>
            /\ pool'.acquired \in {0, 1}
            /\ pool'.released = pool'.acquired
            /\ res'.status \in {201, 403, 404, 409, 500} => pool'.acquired = 1
            /\ (res'.status = 400 /\ ~(IsCheckIn /\ ~LacksField)) => pool'.acquired = 0
            /\ pool'.held = 0
       /\ req' = NoRequest => pool'.held = 0]_vars

\* A check-in whose rollback failed, so that no response was sent, took a
\* connection and released it.
C19_Witness ==
    /\ req.op = "checkin" /\ res.op = "checkin" /\ res.status = 0
    /\ ~MissingField(req)
    /\ pool.acquired = 1 /\ pool.released = 1 /\ pool.held = 0

\* C20 as stated: a registerCompany answered 409 or 500 leaves neither a
\* users row nor a companies row behind.  Violated: commit() is awaited
\* before the verification email is sent, so a failure of sendMail is
\* answered 500 by the catch block after both rows were committed.
C20_FailedRegistrationLeavesNoRow ==
    [][IsRegisterCompany /\ res'.status \in {409, 500} =>
          users' = users /\ companies' = companies]_vars

\* C21 as stated: a POST /register answered with an error leaves no row of
\* that request behind, and every users row has its companies row.
\* Violated: the two INSERTs run on the pool without a transaction, so when
\* the INSERT into companies fails the request is answered 500 and the
\* users row of the new host stays.
IsRegister == req.op = "register" /\ res = NoResponse /\ res'.op = "register"
C21_FailedRegisterLeavesNoRow ==
    [][/\ IsRegister /\ res'.status # 201 => users' = users /\ companies' = companies
       /\ \A i \in DOMAIN users' : i \in DOMAIN companies']_vars

\* C22 as stated: every check-in and every checkout receives a response,
\* whichever query fails.  Violated: pool.getConnection() of the check-in
\* and the ownership SELECT of the checkout are awaited outside the try
\* block, so their failure ends the handler without any response.
C22_EveryFailureAnswered ==
    [][IsCheckIn \/ IsCheckout => res'.status # 0]_vars

\* C23 as stated: a user created by POST /register has role host and the
\* company_name of the users row of the admin who created it, and no
\* operation changes the role or company_name of a user.
RoleAndCompanyKept ==
    \A i \in DOMAIN users :
        /\ i \in DOMAIN users'
        /\ users'[i].role = users[i].role
        /\ users'[i].company_name = users[i].company_name
EmailsUnique == \A i, j \in DOMAIN users : users[i].email = users[j].email => i = j
EmailTaken == \E i \in DOMAIN users : users[i].email = req.email
C24_EmailsStayUnique ==
    [][/\ EmailsUnique /\ EmailsUnique'
       /\ IsRegisterCompany /\ ~MissingRegistrationField(req) /\ EmailTaken =>
              res'.status = 409 /\ users' = users /\ companies' = companies
       /\ (/\ IsRegister /\ req.authorization.kind = "signed" /\ req.user.role = "admin"
           /\ req.user.id \in DOMAIN companies
           /\ req.email # "" /\ req.firstName # <<>> /\ req.password # ""
           /\ EmailTaken) =>
              res'.status = 409 /\ users' = users /\ companies' = companies]_vars

\* An admin's /register with the email of an existing host was answered 409.
C24_Witness ==
    /\ req.op = "register" /\ res.op = "register" /\ res.status = 409
    /\ req.user.role = "admin" /\ EmailTaken
    /\ EmailsUnique

\* C25: a protected handler neither changes nor returns state for a request
\* without a valid token (401 when it is missing, 403 when it is invalid),
\* and the role gates hold: /register, GET /visits and /users act only for
\* role admin, /host-visits only for role host, check-in only for admin or
\* host; any other role gets 403 and nothing changes.
ProtectedOps == {"register", "users", "checkin", "checkout", "visits", "hostVisits"}
IsProtected == req.op \in ProtectedOps /\ res = NoResponse /\ res'.op = req.op
DataUnchanged ==
    /\ users' = users /\ companies' = companies /\ visitors' = visitors /\ visits' = visits
    /\ nextUserId' = nextUserId /\ nextVisitorId' = nextVisitorId /\ nextVisitId' = nextVisitId
    /\ mail' = mail
NothingReturned ==
    "rows" \in DOMAIN res' => IF res'.op = "users" THEN res'.rows = {} ELSE res'.rows = <<>>
Refused(status) == res'.status = status /\ DataUnchanged /\ res'.id = 0 /\ NothingReturned
C25_TokenAndRoleGates ==
    [][IsProtected =>
          /\ req.authorization.kind = "missing" => Refused(401)
          /\ req.authorization.kind = "invalid" => Refused(403)
          /\ (/\ req.authorization.kind = "signed"
              /\ req.op \in {"register", "visits", "users"}
              /\ req.user.role # "admin") => Refused(403)
          /\ (/\ req.authorization.kind = "signed"
              /\ req.op = "hostVisits"
              /\ req.user.role # "host") => Refused(403)
          /\ (/\ req.authorization.kind = "signed"
              /\ req.op = "checkin"
              /\ req.user.role \notin {"admin", "host"}) => Refused(403)
          /\ ~DataUnchanged => req.authorization.kind = "signed"]_vars

\* A check-in that came with a verification token, which is signed by the
\* server and carries no role, was refused with 403.
C25_Witness ==
    /\ req.op = "checkin" /\ res.op = "checkin" /\ res.status = 403
    /\ req.authorization.kind = "signed"
    /\ req.user.role = undefined
    /\ visits = <<>>

\* C26 as stated: a checkout by an admin changes only visits whose host
\* belongs to the admin's own company.  Violated: for an admin the handler
\* issues the UPDATE for whatever visit id the request names, without
\* looking at the visit's host or at the admin's company.
C26_AdminChecksOutOwnCompanyOnly ==
    [][IsCheckout /\ req.user.role = "admin" =>
          \A v \in DOMAIN visits :
              visits'[v] # visits[v] =>
                  SqlEq(CompanyOf(v), users[req.user.id].company_name)]_vars

\* C27 as stated: the company scope of an admin created by a public
\* registerCompany request holds no user of a company registered earlier:
\* the user list such an admin gets holds no user who existed before the
\* admin did.  Violated: the scope is the company_name text, which the
\* request chooses freely, so registering under the name of an existing
\* company puts its users (and their visits) in the new admin's scope.
IsGetUsers == req.op = "users" /\ res = NoResponse /\ res'.op = "users"
CreatedByRegisterCompany(id) ==
    id \in DOMAIN users \ DOMAIN SampleUsers /\ users[id].role = "admin"
C27_TenantsIsolated ==
    [][IsGetUsers /\ res'.status = 200 /\ CreatedByRegisterCompany(req.user.id) =>
          \A row \in res'.rows : row.id >= req.user.id]_vars

\* C28: an admin created by registerCompany is unverified and gets no login
\* token (403) until a verify-email request for that user has been handled,
\* and gets a token after it; a host logs in without verification.
\* verify-email only sets is_verified of the user its token names to true,
\* and repeating it changes nothing.
IsLogin == req.op = "login" /\ res = NoResponse /\ res'.op = "login"
IsVerifyEmail == req.op = "verifyEmail" /\ res = NoResponse /\ res'.op = "verifyEmail"
Credentials == {i \in DOMAIN users : users[i].email = req.email /\ users[i].password = req.password}
C28_LoginNeedsVerifiedAdmin ==
    [][/\ IsRegisterCompany /\ res'.status = 201 =>
              users'[res'.id].role = "admin" /\ ~users'[res'.id].is_verified
       /\ IsLogin =>
              /\ users' = users
              /\ \A i \in Credentials :
                    IF users[i].role = "host" \/ users[i].is_verified
                    THEN res'.status = 200 /\ res'.token = [id |-> i, role |-> users[i].role]
                    ELSE res'.status = 403 /\ res'.token = NoUser
              /\ Credentials = {} => res'.status = 401 /\ res'.token = NoUser
       /\ \A i \in DOMAIN users :
              /\ users[i].is_verified => users'[i].is_verified
              /\ users'[i].is_verified /\ ~users[i].is_verified =>
                     /\ IsVerifyEmail /\ res'.status = 200
                     /\ req.token.kind = "signed" /\ req.token.id = i
       /\ IsVerifyEmail =>
              /\ DOMAIN users' = DOMAIN users
              /\ \A i \in DOMAIN users :
                    users'[i] = IF req.token.kind = "signed" /\ i = req.token.id
                                THEN [users[i] EXCEPT !.is_verified = TRUE]
                                ELSE users[i]
              /\ companies' = companies /\ mail' = mail]_vars

\* An admin created by registerCompany has logged in: it is verified.
C28_Witness ==
    /\ req.op = "login" /\ res.op = "login" /\ res.status = 200
    /\ CreatedByRegisterCompany(res.id)
    /\ res.token = [id |-> res.id, role |-> "admin"]
    /\ users[res.id].is_verified

\* C29: for every user created through /register or /registerCompany, the
\* company_name of the users row equals the company_name of the companies
\* row with the same id, in every reachable state; so the company read from
\* companies (by /register) and the one read from users (by the check-in,
\* GET /visits, /users) agree for such a user.
CreatedUsers == DOMAIN users \ DOMAIN SampleUsers
C29_CompanyNamesAgree ==
    \A i \in CreatedUsers :
        i \in DOMAIN companies =>
            /\ users[i].company_name = companies[i].company_name
            /\ adminCompany(i) = <<[company_name |-> users[i].company_name]>>

\* An admin created by registerCompany and a host created by the sample
\* admin (whose own two rows disagree) both have their two rows.
C29_Witness ==
    \E i, j \in CreatedUsers :
        /\ users[i].role = "admin" /\ i \in DOMAIN companies
        /\ users[j].role = "host" /\ j \in DOMAIN companies
        /\ users[j].company_name = "Test"

\* C30 as stated: once every call of fetchVisits has completed, the list
\* the admin dashboard displays is the response to the latest filter values
\* (the response of the call made last), and it holds no visit id twice.
\* Violated: every call ends in setVisits, whatever has been called since,
\* so the response that arrives last is displayed, also when it answers
\* filters that have been replaced.
AllFetchesDone == fetches # <<>> /\ \A i \in DOMAIN fetches : fetches[i].done
C30_LatestFiltersDisplayed ==
    AllFetchesDone =>
        /\ dashVisits = uniqueVisits(fetches[Len(fetches)].rows)
        /\ \A i, j \in DOMAIN dashVisits : dashVisits[i] = dashVisits[j] => i = j
====
